---- MODULE Spec2Model ----
(***************************************************************************)
(* winhotkeys: the threaded HotkeyManager / HotkeyHandler of               *)
(* src/winhotkeys/hotkey.py as a state machine.                            *)
(*                                                                         *)
(* The caller's thread makes the API calls (register_hotkey,               *)
(* start_listening, stop_listening, HotkeyHandler.start); every            *)
(* start_listening spawns a listener thread that runs _thread_proc step by *)
(* step (one step per statement that reads or writes shared state or calls *)
(* the OS).  The OS side (window classes, windows, the hot-key table, the  *)
(* per-window message queue) is modelled by what the Win32 calls the code  *)
(* makes are documented to do.  The last part states the properties of the *)
(* design and, next to some operations, a faulty variant that the          *)
(* properties must tell from the operation.                                *)
(***************************************************************************)
EXTENDS Integers, Sequences, FiniteSets, TLC

----------------------------------------------------------------------------
(* Bounds of the model *)

\* listener threads spawned in one run
MaxThreads == 2
\* successful register_hotkey calls in one run
MaxIds == 2
\* WM_HOTKEY messages waiting in one window's queue
MaxQueue == 2
\* messages that may wait in a window's queue when another process posts to it
MaxStrayQueue == 1

----------------------------------------------------------------------------
(* Program constants *)

WM_HOTKEY == 786
WM_USER == 1024
WM_USER_CLEANUP == WM_USER + 1
MOD_NOREPEAT == 16384
MOD_ALT == 1
MOD_CONTROL == 2
MOD_SHIFT == 4
MOD_WIN == 8
ERROR_HOTKEY_ALREADY_REGISTERED == 1409

\* Python's None where a number is expected (a key code, a modifier flag)
None == -1
\* self.hwnd before a window exists (None: falsy)
NoWindow == 0

Managers == {"m1", "m2"}
ThreadIds == 1..MaxThreads

\* HotkeyHandler(hotkey_combination, callback): one handler per manager (example.py)
HandlerArgs ==
    [m1 |-> [combination |-> "alt+ctrl+1", callback |-> "on_hotkey1_pressed"],
     m2 |-> [combination |-> "control+alt+2", callback |-> "on_hotkey2_pressed"]]

\* the combinations register_hotkey rejects: the empty one, an unknown modifier
\* before a valid main key, a main key in neither table
RejectedInputs == {"", "unknownmod+a", "shift+unknownkey"}

\* what the caller passes to register_hotkey: two valid combinations and the
\* rejected ones
Requests ==
    {[combination |-> "alt+ctrl+1", callback |-> "on_hotkey1_pressed"],
     [combination |-> "control+alt+2", callback |-> "on_hotkey2_pressed"]}
    \cup {[combination |-> c, callback |-> "on_hotkey1_pressed"] : c \in RejectedInputs}
Callbacks == {"on_hotkey1_pressed", "on_hotkey2_pressed"}

----------------------------------------------------------------------------
(* _parse_hotkey_combination and its helpers, on strings *)

UpperCase == [A |-> "a", B |-> "b", C |-> "c", D |-> "d", E |-> "e", F |-> "f",
              G |-> "g", H |-> "h", I |-> "i", J |-> "j", K |-> "k", L |-> "l",
              M |-> "m", N |-> "n", O |-> "o", P |-> "p", Q |-> "q", R |-> "r",
              S |-> "s", T |-> "t", U |-> "u", V |-> "v", W |-> "w", X |-> "x",
              Y |-> "y", Z |-> "z"]

Char(s, i) == SubSeq(s, i, i)

\* a lower() that leaves its argument as it is (faulty variant)
lower_unchanged(s) == s

RECURSIVE lower(_)
\* str.lower()
lower(s) ==
    IF s = "" THEN ""
    ELSE (IF Char(s, 1) \in DOMAIN UpperCase THEN UpperCase[Char(s, 1)] ELSE Char(s, 1))
         \o lower(SubSeq(s, 2, Len(s)))

RECURSIVE split(_)
\* str.split('+'): never empty, "" splits to <<"">>
split(s) ==
    IF \E i \in 1..Len(s) : Char(s, i) = "+"
    THEN LET i == CHOOSE k \in 1..Len(s) :
                     Char(s, k) = "+" /\ \A j \in 1..(k - 1) : Char(s, j) # "+"
         IN <<SubSeq(s, 1, i - 1)>> \o split(SubSeq(s, i + 1, Len(s)))
    ELSE <<s>>

IsSpace(c) == c \in {" ", "\t"}

RECURSIVE lstrip(_)
lstrip(s) == IF s # "" /\ IsSpace(Char(s, 1)) THEN lstrip(SubSeq(s, 2, Len(s))) ELSE s

RECURSIVE rstrip(_)
rstrip(s) ==
    IF s # "" /\ IsSpace(Char(s, Len(s))) THEN rstrip(SubSeq(s, 1, Len(s) - 1)) ELSE s

\* str.strip()
strip(s) == rstrip(lstrip(s))

\* a + b in the place of a | b (faulty variant): a flag given twice counts twice
BitPlus(a, b) == a + b

\* a | b for a flag b (one bit) and a bit set a
BitOr(a, b) == IF (a \div b) % 2 = 1 THEN a ELSE a + b

\* the key_map of _get_vk_code
key_map ==
    [enter |-> 13, space |-> 32, tab |-> 9, escape |-> 27, esc |-> 27,
     backspace |-> 8, delete |-> 46, del |-> 46, insert |-> 45, ins |-> 45,
     home |-> 36, end |-> 35, pageup |-> 33, pagedown |-> 34,
     up |-> 38, down |-> 40, left |-> 37, right |-> 39,
     f1 |-> 112, f2 |-> 113, f3 |-> 114, f4 |-> 115, f5 |-> 116, f6 |-> 117,
     f7 |-> 118, f8 |-> 119, f9 |-> 120, f10 |-> 121, f11 |-> 122, f12 |-> 123]
    @@ ("0" :> 48 @@ "1" :> 49 @@ "2" :> 50 @@ "3" :> 51 @@ "4" :> 52 @@
        "5" :> 53 @@ "6" :> 54 @@ "7" :> 55 @@ "8" :> 56 @@ "9" :> 57)
    @@ [a |-> 65, b |-> 66, c |-> 67, d |-> 68, e |-> 69, f |-> 70, g |-> 71,
        h |-> 72, i |-> 73, j |-> 74, k |-> 75, l |-> 76, m |-> 77, n |-> 78,
        o |-> 79, p |-> 80, q |-> 81, r |-> 82, s |-> 83, t |-> 84, u |-> 85,
        v |-> 86, w |-> 87, x |-> 88, y |-> 89, z |-> 90]

\* key_map.get(key.lower())
get_vk_code(key) == IF lower(key) \in DOMAIN key_map THEN key_map[lower(key)] ELSE None

\* the name table of the keycodes module (named keys only)
vk_key_names ==
    [enter |-> 13, space |-> 32, tab |-> 9, escape |-> 27,
     up |-> 38, down |-> 40, left |-> 37, right |-> 39,
     f1 |-> 112, f2 |-> 113, f3 |-> 114, f4 |-> 115, f5 |-> 116, f6 |-> 117,
     f7 |-> 118, f8 |-> 119, f9 |-> 120, f10 |-> 121, f11 |-> 122, f12 |-> 123]

\* one modifier token: the flag, or None for an unknown token
modifier_flag(key) ==
    IF key = "control" \/ key = "ctrl" THEN MOD_CONTROL
    ELSE IF key = "alt" THEN MOD_ALT
    ELSE IF key = "shift" THEN MOD_SHIFT
    ELSE IF key = "win" \/ key = "windows" THEN MOD_WIN
    ELSE None

RECURSIVE process_modifiers_skipping(_, _, _)
\* a loop over modifier_keys that passes over unknown tokens (faulty variant)
process_modifiers_skipping(modifier_keys, i, modifiers) ==
    IF i > Len(modifier_keys) THEN <<modifiers, TRUE>>
    ELSE IF modifier_flag(modifier_keys[i]) = None
         THEN process_modifiers_skipping(modifier_keys, i + 1, modifiers)
    ELSE process_modifiers_skipping(modifier_keys, i + 1,
                                    BitOr(modifiers, modifier_flag(modifier_keys[i])))

RECURSIVE process_modifiers(_, _, _)
\* the loop over modifier_keys: <<modifiers, ok>>, stopping at the first unknown token
process_modifiers(modifier_keys, i, modifiers) ==
    IF i > Len(modifier_keys) THEN <<modifiers, TRUE>>
    ELSE IF modifier_flag(modifier_keys[i]) = None THEN <<modifiers, FALSE>>
    ELSE process_modifiers(modifier_keys, i + 1,
                           BitOr(modifiers, modifier_flag(modifier_keys[i])))

\* a no-repeat flag given only to combinations without modifiers (faulty variant)
add_norepeat_when_empty(modifiers) ==
    IF modifiers = 0 THEN MOD_NOREPEAT ELSE modifiers

\* the no-repeat flag is added whatever the modifiers are
add_norepeat(modifiers) ==
    IF modifiers = 0 THEN MOD_NOREPEAT ELSE BitOr(modifiers, MOD_NOREPEAT)

\* the main key: the keycodes table first, then the common mappings
main_key_code(main_key) ==
    IF main_key \in DOMAIN vk_key_names THEN vk_key_names[main_key]
    ELSE get_vk_code(main_key)

\* _parse_hotkey_combination: <<modifiers, vk_code>>, vk_code None when rejected
parse_hotkey_combination(hotkey_combination) ==
    LET keys == [k \in 1..Len(split(lower(hotkey_combination))) |->
                     strip(split(lower(hotkey_combination))[k])]
        main_key == keys[Len(keys)]
        modifier_keys == SubSeq(keys, 1, Len(keys) - 1)
        mods == process_modifiers(modifier_keys, 1, 0)
    IN IF ~mods[2] THEN <<mods[1], None>>
       ELSE <<add_norepeat(mods[1]), main_key_code(main_key)>>

(* Spellings of one combination: letter case and white space around the tokens *)

\* the combinations whose spellings are tried, as token sequences
Bases == {<<"alt", "f1">>, <<"a">>}

\* white space put before or after a token
Pads == {"", " ", "\t"}

RECURSIVE Join(_)
\* the tokens with '+' between them
Join(toks) ==
    IF Len(toks) = 1 THEN toks[1] ELSE toks[1] \o "+" \o Join(Tail(toks))

\* the upper-case letter of a lower-case one
Upper(c) ==
    IF \E u \in DOMAIN UpperCase : UpperCase[u] = c
    THEN CHOOSE u \in DOMAIN UpperCase : UpperCase[u] = c
    ELSE c

RECURSIVE UpperAll(_)
UpperAll(s) == IF s = "" THEN "" ELSE Upper(Char(s, 1)) \o UpperAll(SubSeq(s, 2, Len(s)))

RECURSIVE CaseVariants(_)
\* every choice of case, letter by letter
CaseVariants(s) ==
    IF s = "" THEN {""}
    ELSE {c \o r : c \in {Char(s, 1), Upper(Char(s, 1))},
                   r \in CaseVariants(SubSeq(s, 2, Len(s)))}

RECURSIVE PadVariants(_)
\* every choice of white space around each token
PadVariants(toks) ==
    IF Len(toks) = 1 THEN {l \o toks[1] \o r : l \in Pads, r \in Pads}
    ELSE {l \o toks[1] \o r \o "+" \o rest :
              l \in Pads, r \in Pads, rest \in PadVariants(Tail(toks))}

\* the spellings of base b that the model tries: b itself among them
Variants ==
    [b \in Bases |->
        CaseVariants(Join(b)) \cup PadVariants(b) \cup {UpperAll(p) : p \in PadVariants(b)}]

\* the calls register_hotkey(spelling, callback) of the spellings
SpellingRequests ==
    {[combination |-> v, callback |-> "on_hotkey1_pressed"] :
         v \in UNION {Variants[b] : b \in Bases}}

(* Modifier tokens: repeated, in any order, under either of their names *)

\* the names of the modifier tokens and the key each of them names
ModifierNames ==
    [ctrl |-> "ctrl", control |-> "ctrl", alt |-> "alt", shift |-> "shift",
     win |-> "win", windows |-> "win"]

\* the longest list of modifier tokens tried
MaxModifierTokens == 3

\* the lists of modifier tokens tried
ModifierLists ==
    UNION {[1..n -> DOMAIN ModifierNames] : n \in 0..MaxModifierTokens}

\* the combination that gives the modifier tokens l and the main key f1
Spelled == [l \in ModifierLists |-> Join(l \o <<"f1">>)]

\* the set of modifier keys a combination of Spelled names
ModifierKeys ==
    [c \in {Spelled[l] : l \in ModifierLists} |->
        LET l == CHOOSE x \in ModifierLists : Spelled[x] = c
        IN {ModifierNames[l[i]] : i \in DOMAIN l}]

\* the calls register_hotkey(combination, callback) of these combinations
ModifierListRequests ==
    {[combination |-> c, callback |-> "on_hotkey1_pressed"] : c \in DOMAIN ModifierKeys}

\* calls of register_hotkey with no, one and two modifier tokens
ModifierCountRequests ==
    {[combination |-> "f1", callback |-> "on_hotkey1_pressed"],
     [combination |-> "alt+f1", callback |-> "on_hotkey2_pressed"],
     [combination |-> "ctrl+shift+f1", callback |-> "on_hotkey1_pressed"]}

\* the combinations the model passes to register_hotkey, each parsed once
Combinations ==
    {req.combination : req \in Requests \cup SpellingRequests \cup ModifierCountRequests
                                \cup ModifierListRequests}
    \cup {HandlerArgs[m].combination : m \in Managers}
Parsed == [c \in Combinations |-> parse_hotkey_combination(c)]

----------------------------------------------------------------------------
(* State *)

VARIABLES
    next_id,             \* HotkeyManager._next_id (class variable)
    next_class_id,       \* HotkeyManager._next_class_id (class variable)
    registered_hotkeys,  \* per manager: the dict, as the sequence of its entries in insertion order
    running,             \* per manager: self.running
    hwnd,                \* per manager: self.hwnd
    message_thread,      \* per manager: self._message_thread (0: None)
    hotkey_managers,     \* the global directory _hotkey_managers: window -> manager
    thr,                 \* per listener thread: its position in _thread_proc and its locals
    nthreads,            \* listener threads spawned so far
    facade,              \* the manager whose HotkeyHandler.start() is between its two calls, or "idle"
    callers,             \* per further caller thread: its position in register_hotkey and its locals
    classes,             \* OS: registered window class ids
    windows,             \* OS: live windows (the window created by thread t has handle t)
    osHotkeys,           \* OS: the hot keys registered, [hwnd, id, modifiers, vk_code]
    queue,               \* OS: per window, the posted messages in order
    stopped,             \* per manager: stop_listening() returned on the started listener, no start since
    returned             \* the call whose guard ("if self.running", "if not self.running") held in the last step

vars == <<next_id, next_class_id, registered_hotkeys, running, hwnd, message_thread,
          hotkey_managers, thr, nthreads, facade, callers, classes, windows, osHotkeys,
          queue, stopped,
          returned>>

progVars == <<next_id, next_class_id, registered_hotkeys, running, hwnd, message_thread,
              hotkey_managers, thr, nthreads>>
osVars == <<classes, windows, osHotkeys, queue>>

NoEntry == [id |-> 0, modifiers |-> 0, vk_code |-> 0, callback |-> "", combination |-> ""]
NoCall == [mgr |-> "", id |-> 0, callback |-> "", late |-> FALSE]
Unborn == [pc |-> "unborn", mgr |-> "", class_name |-> 0, tmp |-> 0, iterLen |-> 0,
           idx |-> 0, cur |-> NoEntry, cb |-> NoCall, quit |-> FALSE]

\* threads, besides the main caller, that call register_hotkey
CallerThreads == {"c1", "c2"}
\* the locals of a caller thread that is not inside register_hotkey
NoRegistration ==
    [pc |-> "idle", mgr |-> "", combination |-> "", callback |-> "", hotkey_id |-> 0,
     tmp |-> 0]

\* dict helpers on the insertion-ordered entry sequence
Keys(tbl) == {tbl[i].id : i \in DOMAIN tbl}
Get(tbl, id) == tbl[CHOOSE i \in DOMAIN tbl : tbl[i].id = id]
\* d[id] = e: a new key is appended, an existing key keeps its place
SetItem(tbl, e) ==
    IF e.id \in Keys(tbl)
    THEN [i \in DOMAIN tbl |-> IF tbl[i].id = e.id THEN e ELSE tbl[i]]
    ELSE Append(tbl, e)
\* del d[k]
\* a removal that empties the whole dictionary (faulty variant)
ClearKeys(d, k) == [x \in {} |-> d[x]]

DelKey(d, k) == [x \in DOMAIN d \ {k} |-> d[x]]

Init ==
    /\ next_id = 1
    /\ next_class_id = 1
    /\ registered_hotkeys = [m \in Managers |-> <<>>]
    /\ running = [m \in Managers |-> FALSE]
    /\ hwnd = [m \in Managers |-> NoWindow]
    /\ message_thread = [m \in Managers |-> 0]
    /\ hotkey_managers = <<>>
    /\ thr = [t \in ThreadIds |-> Unborn]
    /\ nthreads = 0
    /\ facade = "idle"
    /\ callers = [c \in CallerThreads |-> NoRegistration]
    /\ classes = {}
    /\ windows = {}
    /\ osHotkeys = {}
    /\ queue = [w \in ThreadIds |-> <<>>]
    /\ stopped = [m \in Managers |-> FALSE]
    /\ returned = ""

----------------------------------------------------------------------------
(* The caller's thread: the HotkeyManager and HotkeyHandler API *)

\* register_hotkey: parse, take the next id, store the entry
register_hotkey(m, hotkey_combination, callback) ==
    LET parsed == Parsed[hotkey_combination]
    IN IF parsed[2] = None
       THEN /\ returned' = "register_hotkey"
            /\ UNCHANGED <<next_id, registered_hotkeys>>
       ELSE /\ returned' = ""
            /\ next_id' = next_id + 1
            /\ registered_hotkeys' =
                   [registered_hotkeys EXCEPT ![m] =
                        SetItem(@, [id |-> next_id, modifiers |-> parsed[1],
                                    vk_code |-> parsed[2], callback |-> callback,
                                    combination |-> hotkey_combination])]

\* a start_listening without its guard: it spawns a listener also when running
start_listening_unguarded(m) ==
    /\ returned' = IF running[m] THEN "start_listening" ELSE ""
    /\ running' = [running EXCEPT ![m] = TRUE]
    /\ nthreads' = nthreads + 1
    /\ thr' = [thr EXCEPT ![nthreads + 1] =
                   [Unborn EXCEPT !.pc = "class_name", !.mgr = m]]
    /\ message_thread' = [message_thread EXCEPT ![m] = nthreads + 1]
    /\ stopped' = [stopped EXCEPT ![m] = FALSE]

\* start_listening: nothing when running; else set the flag and spawn _thread_proc
start_listening(m) ==
    IF running[m]
    THEN /\ returned' = "start_listening"
         /\ UNCHANGED <<running, thr, nthreads, message_thread, stopped>>
    ELSE /\ returned' = ""
         /\ running' = [running EXCEPT ![m] = TRUE]
         /\ nthreads' = nthreads + 1
         /\ thr' = [thr EXCEPT ![nthreads + 1] =
                        [Unborn EXCEPT !.pc = "class_name", !.mgr = m]]
         /\ message_thread' = [message_thread EXCEPT ![m] = nthreads + 1]
         /\ stopped' = [stopped EXCEPT ![m] = FALSE]

CleanupMsg == [msg |-> WM_USER_CLEANUP, wparam |-> 0, late |-> FALSE]
HotkeyMsg(id, late) == [msg |-> WM_HOTKEY, wparam |-> id, late |-> late]

\* a post that first takes the oldest pending message off the window's queue
PostAfterPeek(h, msg) ==
    IF h \in windows
    THEN [queue EXCEPT ![h] = IF @ = <<>> THEN <<msg>> ELSE Append(Tail(@), msg)]
    ELSE queue

\* win32gui.PostMessage(h, msg): appends to the window's queue; fails on a handle
\* that is no live window (the exception is caught in stop_listening)
PostMessage(h, msg) ==
    IF h \in windows THEN [queue EXCEPT ![h] = Append(@, msg)] ELSE queue

\* a stop_listening without its guard: it posts the cleanup also when not running
stop_listening_unguarded(m) ==
    /\ returned' = IF running[m] THEN "" ELSE "stop_listening"
    /\ running' = [running EXCEPT ![m] = FALSE]
    /\ queue' = IF hwnd[m] # NoWindow
                THEN IF hwnd[m] \in windows
                     THEN [queue EXCEPT ![hwnd[m]] = Append(@, CleanupMsg)]
                     ELSE queue
                ELSE queue
    /\ stopped' = [stopped EXCEPT ![m] = TRUE]

\* a stop_listening that joins the listener thread (faulty variant): it returns
\* only once the thread has ended
stop_listening_joining(m) ==
    IF ~running[m]
    THEN /\ returned' = "stop_listening"
         /\ UNCHANGED <<running, queue, stopped>>
    ELSE /\ message_thread[m] # 0 => thr[message_thread[m]].pc = "done"
         /\ returned' = ""
         /\ running' = [running EXCEPT ![m] = FALSE]
         /\ queue' = IF hwnd[m] # NoWindow THEN PostMessage(hwnd[m], CleanupMsg) ELSE queue
         /\ stopped' = [stopped EXCEPT ![m] = TRUE]

\* stop_listening: nothing when not running; else clear the flag and, if self.hwnd
\* is set, post the cleanup message to it
stop_listening(m) ==
    IF ~running[m]
    THEN /\ returned' = "stop_listening"
         /\ UNCHANGED <<running, queue, stopped>>
    ELSE /\ returned' = ""
         /\ running' = [running EXCEPT ![m] = FALSE]
         /\ queue' = IF hwnd[m] # NoWindow THEN PostMessage(hwnd[m], CleanupMsg) ELSE queue
         /\ stopped' = [stopped EXCEPT ![m] = TRUE]

RegisterHotkey(m, req) ==
    /\ facade = "idle"
    /\ Parsed[req.combination][2] # None => next_id <= MaxIds
    /\ register_hotkey(m, req.combination, req.callback)
    /\ UNCHANGED <<next_class_id, running, hwnd, message_thread, hotkey_managers, thr,
                   nthreads, facade, callers, osVars, stopped>>

StartListening(m) ==
    /\ facade = "idle"
    /\ running[m] \/ nthreads < MaxThreads
    /\ start_listening(m)
    /\ UNCHANGED <<next_id, next_class_id, registered_hotkeys, hwnd, hotkey_managers,
                   facade, callers, osVars>>

StopListening(m) ==
    /\ facade = "idle"
    /\ stop_listening(m)
    /\ UNCHANGED <<next_id, next_class_id, registered_hotkeys, hwnd, message_thread,
                   hotkey_managers, thr, nthreads, facade, callers, classes, windows, osHotkeys>>

\* atexit.register(self.stop_listening): the managers whose start_listening got
\* past its guard have stop_listening among the exit hooks
atexit_hooks == {m \in Managers : message_thread[m] # 0}

\* the main thread has finished: the interpreter starts to run the exit hooks
BeginExit ==
    /\ facade = "idle"
    /\ facade' = "atexit"
    /\ UNCHANGED <<progVars, callers, osVars, stopped>>
    /\ returned' = ""

\* the exit hook of manager m: stop_listening()
AtExit(m) ==
    /\ facade = "atexit"
    /\ m \in atexit_hooks
    /\ stop_listening(m)
    /\ facade' = "exited"
    /\ UNCHANGED <<next_id, next_class_id, registered_hotkeys, hwnd, message_thread,
                   hotkey_managers, thr, nthreads, callers, classes, windows, osHotkeys>>

\* HotkeyHandler.start, first statement: register_hotkey(self.hotkey_combination, ...)
HandlerStartRegister(m) ==
    /\ facade = "idle"
    /\ next_id <= MaxIds
    /\ register_hotkey(m, HandlerArgs[m].combination, HandlerArgs[m].callback)
    /\ facade' = m
    /\ UNCHANGED callers
    /\ UNCHANGED <<next_class_id, running, hwnd, message_thread, hotkey_managers, thr,
                   nthreads, osVars, stopped>>

\* HotkeyHandler.start, second statement: start_listening()
HandlerStartListen(m) ==
    /\ facade = m
    /\ running[m] \/ nthreads < MaxThreads
    /\ start_listening(m)
    /\ facade' = "idle"
    /\ UNCHANGED callers
    /\ UNCHANGED <<next_id, next_class_id, registered_hotkeys, hwnd, hotkey_managers,
                   osVars>>

----------------------------------------------------------------------------
(* register_hotkey statement by statement, for callers on several threads *)

\* caller thread c is at position pc of register_hotkey
CallerAt(c, pc) == callers[c].pc = pc

\* c calls register_hotkey(req.combination, req.callback) on manager m: the parse,
\* the return when it fails, and hotkey_id = HotkeyManager._next_id
CallerBegin(c, m, req) ==
    /\ CallerAt(c, "idle")
    /\ next_id <= MaxIds
    /\ IF Parsed[req.combination][2] = None
       THEN /\ returned' = "register_hotkey"
            /\ UNCHANGED callers
       ELSE /\ returned' = ""
            /\ callers' = [callers EXCEPT ![c] =
                             [pc |-> "load", mgr |-> m, combination |-> req.combination,
                              callback |-> req.callback, hotkey_id |-> next_id, tmp |-> 0]]
    /\ UNCHANGED <<progVars, facade, osVars, stopped>>

\* HotkeyManager._next_id += 1: the read
CallerLoad(c) ==
    /\ CallerAt(c, "load")
    /\ callers' = [callers EXCEPT ![c].tmp = next_id, ![c].pc = "store"]
    /\ UNCHANGED <<progVars, facade, osVars, stopped>>
    /\ returned' = ""

\* HotkeyManager._next_id += 1: the write
CallerStore(c) ==
    /\ CallerAt(c, "store")
    /\ next_id' = callers[c].tmp + 1
    /\ callers' = [callers EXCEPT ![c].pc = "insert"]
    /\ UNCHANGED <<next_class_id, registered_hotkeys, running, hwnd, message_thread,
                   hotkey_managers, thr, nthreads, facade, osVars, stopped>>
    /\ returned' = ""

\* self.registered_hotkeys[hotkey_id] = {...}; the call returns
CallerInsert(c) ==
    /\ CallerAt(c, "insert")
    /\ registered_hotkeys' =
           [registered_hotkeys EXCEPT ![callers[c].mgr] =
                SetItem(@, [id |-> callers[c].hotkey_id,
                            modifiers |-> Parsed[callers[c].combination][1],
                            vk_code |-> Parsed[callers[c].combination][2],
                            callback |-> callers[c].callback,
                            combination |-> callers[c].combination])]
    /\ callers' = [callers EXCEPT ![c] = NoRegistration]
    /\ UNCHANGED <<next_id, next_class_id, running, hwnd, message_thread,
                   hotkey_managers, thr, nthreads, facade, osVars, stopped>>
    /\ returned' = ""

----------------------------------------------------------------------------
(* The OS calls the listener makes *)

\* the hot-key table hk after UnregisterHotKey(h, id)
UnregisterHotKey(hk, h, id) == {r \in hk : ~(r.hwnd = h /\ r.id = id)}

\* the combination is claimed by some registration of the hot-key table hk
Claimed(hk, modifiers, vk_code) ==
    \E r \in hk : r.modifiers = modifiers /\ r.vk_code = vk_code

\* a RegisterHotKey that grants a combination another registration holds
RegisterHotKeyShared(hk, t, h, modifiers, vk_code) ==
    IF h \notin windows \/ h # t THEN "error" ELSE "ok"

\* RegisterHotKey(h, id, modifiers, vk_code) called by thread t: "ok", "claimed"
\* (error 1409) or "error" (the handle is no window of the calling thread)
RegisterHotKeyResult(hk, t, h, modifiers, vk_code) ==
    IF h \notin windows \/ h # t THEN "error"
    ELSE IF Claimed(hk, modifiers, vk_code) THEN "claimed"
    ELSE "ok"

\* what the OS does when a thread ends: its window is destroyed, the window's
\* hot keys are freed and its pending messages are dropped
\* a thread exit that leaves the thread's window behind (faulty variant)
ExitThreadKeepsWindow(t) ==
    /\ windows' = windows
    /\ osHotkeys' = {r \in osHotkeys : r.hwnd # t}
    /\ queue' = [queue EXCEPT ![t] = <<>>]

ExitThread(t) ==
    /\ windows' = windows \ {t}
    /\ osHotkeys' = {r \in osHotkeys : r.hwnd # t}
    /\ queue' = [queue EXCEPT ![t] = <<>>]

----------------------------------------------------------------------------
(* The listener thread: _thread_proc.  A step is a statement that reads or  *)
(* writes shared state or calls the OS; consecutive statements are one step *)
(* where every step of another thread commutes with one of them.            *)

At(t, pc) == thr[t].pc = pc
Self(t) == thr[t].mgr

\* class_name = f"HotkeyMgr{HotkeyManager._next_class_id}"
ThreadClassName(t) ==
    /\ At(t, "class_name")
    /\ thr' = [thr EXCEPT ![t].class_name = next_class_id, ![t].pc = "class_load"]
    /\ UNCHANGED <<next_id, next_class_id, registered_hotkeys, running, hwnd,
                   message_thread, hotkey_managers, nthreads, facade, callers, osVars, stopped>>
    /\ returned' = ""

\* HotkeyManager._next_class_id += 1: the read
ThreadClassLoad(t) ==
    /\ At(t, "class_load")
    /\ thr' = [thr EXCEPT ![t].tmp = next_class_id, ![t].pc = "register_class"]
    /\ UNCHANGED <<next_id, next_class_id, registered_hotkeys, running, hwnd,
                   message_thread, hotkey_managers, nthreads, facade, callers, osVars, stopped>>
    /\ returned' = ""

\* a return after a failed start that leaves self.running as it is (faulty variant)
FailStartKeepsRunning(t) ==
    /\ running' = running
    /\ thr' = [thr EXCEPT ![t] = [Unborn EXCEPT !.pc = "done", !.mgr = Self(t)]]

\* the thread returns after a failed start: self.running = False
FailStart(t) ==
    /\ running' = [running EXCEPT ![Self(t)] = FALSE]
    /\ thr' = [thr EXCEPT ![t] = [Unborn EXCEPT !.pc = "done", !.mgr = Self(t)]]

\* HotkeyManager._next_class_id += 1: the write; then win32gui.RegisterClass(wndclass),
\* which fails when the class name is registered already
ThreadRegisterClass(t) ==
    /\ At(t, "register_class")
    /\ next_class_id' = thr[t].tmp + 1
    /\ IF thr[t].class_name \notin classes
       THEN /\ classes' = classes \cup {thr[t].class_name}
            /\ thr' = [thr EXCEPT ![t].pc = "create_window"]
            /\ UNCHANGED running
       ELSE /\ FailStart(t)
            /\ UNCHANGED classes
    /\ UNCHANGED <<next_id, registered_hotkeys, hwnd, message_thread, hotkey_managers,
                   nthreads, facade, callers, windows, osHotkeys, queue, stopped>>
    /\ returned' = ""

\* RegisterClass fails for a reason outside the program
ThreadRegisterClassFails(t) ==
    /\ At(t, "register_class")
    /\ next_class_id' = thr[t].tmp + 1
    /\ thr[t].class_name \notin classes
    /\ FailStart(t)
    /\ UNCHANGED <<next_id, registered_hotkeys, hwnd, message_thread, hotkey_managers,
                   nthreads, facade, callers, osVars, stopped>>
    /\ returned' = ""

\* self.hwnd = CreateWindowEx(...); _hotkey_managers[self.hwnd] = self; then the
\* iterator of self.registered_hotkeys.items() is created
ThreadCreateWindow(t) ==
    /\ At(t, "create_window")
    /\ windows' = windows \cup {t}
    /\ hwnd' = [hwnd EXCEPT ![Self(t)] = t]
    /\ hotkey_managers' = (t :> Self(t)) @@ hotkey_managers
    /\ thr' = [thr EXCEPT ![t].pc = "iter",
                          ![t].iterLen = Len(registered_hotkeys[Self(t)]),
                          ![t].idx = 1]
    /\ UNCHANGED <<next_id, next_class_id, registered_hotkeys, running, message_thread,
                   nthreads, facade, callers, classes, osHotkeys, queue, stopped>>
    /\ returned' = ""

\* CreateWindowEx raises
ThreadCreateWindowFails(t) ==
    /\ At(t, "create_window")
    /\ FailStart(t)
    /\ UNCHANGED <<next_id, next_class_id, registered_hotkeys, hwnd, message_thread,
                   hotkey_managers, nthreads, facade, callers, osVars, stopped>>
    /\ returned' = ""

\* the dict iterator's next() raises RuntimeError when the dict changed size since
\* the iterator was created
IterChanged(t) == Len(registered_hotkeys[Self(t)]) # thr[t].iterLen

\* the loop is over when the iterator is exhausted
IterDone(t) == thr[t].idx > thr[t].iterLen

\* the exception reaches _thread_proc's outer except: self.running = False and the
\* thread ends
ThreadDies(t) ==
    /\ running' = [running EXCEPT ![Self(t)] = FALSE]
    /\ thr' = [thr EXCEPT ![t] = [Unborn EXCEPT !.pc = "done", !.mgr = Self(t)]]
    /\ ExitThread(t)

\* the hot-key tables win32gui.UnregisterHotKey(self.hwnd, hotkey_id) can leave; its
\* errors are ignored.  self.hwnd may by now be the window of a newer listener of
\* the manager: whether the OS frees a hot key of another thread's window is left
\* open
UnregFirst(t, e) ==
    IF hwnd[Self(t)] = t
    THEN {UnregisterHotKey(osHotkeys, hwnd[Self(t)], e.id)}
    ELSE {osHotkeys, UnregisterHotKey(osHotkeys, hwnd[Self(t)], e.id)}

\* the registration RegisterHotKey(self.hwnd, hotkey_id, modifiers, vk_code) adds
NewHotkey(t, e) ==
    [hwnd |-> hwnd[Self(t)], id |-> e.id, modifiers |-> e.modifiers,
     vk_code |-> e.vk_code]

\* a loop that gives up the remaining entries when a registration fails
AfterRegisterBreak(result) ==
    IF result = "ok" THEN "iter" ELSE IF result = "claimed" THEN "retry" ELSE "pump"

\* where the loop goes after the first RegisterHotKey: to the retry when the error
\* is 1409, else on to the next entry
AfterRegister(result) == IF result = "claimed" THEN "retry" ELSE "iter"

\* one round of "for hotkey_id, details in self.registered_hotkeys.items()": next(),
\* UnregisterHotKey(self.hwnd, hotkey_id), RegisterHotKey(self.hwnd, hotkey_id, ...)
ThreadRegisterEntry(t) ==
    /\ At(t, "iter")
    /\ IF IterChanged(t)
       THEN ThreadDies(t)
       ELSE IF IterDone(t)
       THEN /\ thr' = [thr EXCEPT ![t].pc = "pump", ![t].iterLen = 0, ![t].idx = 0]
            /\ UNCHANGED <<running, windows, osHotkeys, queue>>
       ELSE \E hk \in UnregFirst(t, registered_hotkeys[Self(t)][thr[t].idx]) :
              LET e == registered_hotkeys[Self(t)][thr[t].idx]
                  result == RegisterHotKeyResult(hk, t, hwnd[Self(t)], e.modifiers,
                                                 e.vk_code)
              IN /\ osHotkeys' = IF result = "ok" THEN hk \cup {NewHotkey(t, e)} ELSE hk
                 /\ thr' = [thr EXCEPT ![t].pc = AfterRegister(result),
                                       ![t].cur = IF result = "claimed" THEN e ELSE NoEntry,
                                       ![t].idx = thr[t].idx + 1]
                 /\ UNCHANGED <<running, windows, queue>>
    /\ UNCHANGED <<next_id, next_class_id, registered_hotkeys, hwnd, message_thread,
                   hotkey_managers, nthreads, facade, callers, classes, stopped>>
    /\ returned' = ""

\* the same round when RegisterHotKey fails for a reason outside the program (an
\* error other than 1409): the except of the loop body, on to the next entry
ThreadRegisterEntryFails(t) ==
    /\ At(t, "iter")
    /\ ~IterChanged(t)
    /\ ~IterDone(t)
    /\ \E hk \in UnregFirst(t, registered_hotkeys[Self(t)][thr[t].idx]) :
          LET e == registered_hotkeys[Self(t)][thr[t].idx]
          IN /\ RegisterHotKeyResult(hk, t, hwnd[Self(t)], e.modifiers, e.vk_code) = "ok"
             /\ osHotkeys' = hk
    /\ thr' = [thr EXCEPT ![t].idx = thr[t].idx + 1]
    /\ UNCHANGED <<next_id, next_class_id, registered_hotkeys, running, hwnd,
                   message_thread, hotkey_managers, nthreads, facade, callers, classes, windows,
                   queue, stopped>>
    /\ returned' = ""

\* the retry after error 1409: UnregisterHotKey(self.hwnd, hotkey_id), then
\* RegisterHotKey again; any exception is caught and the entry is left as it is.
\* When the unregister frees nothing, whether the binding raises (and the second
\* RegisterHotKey is skipped) is left open
ThreadRetry(t) ==
    /\ At(t, "retry")
    /\ \E hk \in UnregFirst(t, thr[t].cur), raised \in BOOLEAN :
          /\ raised => hk = osHotkeys
          /\ LET e == thr[t].cur
                 result == RegisterHotKeyResult(hk, t, hwnd[Self(t)], e.modifiers,
                                                e.vk_code)
             IN osHotkeys' = IF raised THEN osHotkeys
                             ELSE IF result = "ok" THEN hk \cup {NewHotkey(t, e)}
                             ELSE hk
    /\ thr' = [thr EXCEPT ![t].pc = "iter", ![t].cur = NoEntry]
    /\ UNCHANGED <<next_id, next_class_id, registered_hotkeys, running, hwnd,
                   message_thread, hotkey_managers, nthreads, facade, callers, classes, windows,
                   queue, stopped>>
    /\ returned' = ""

----------------------------------------------------------------------------
(* The message pump and _global_wndproc *)

\* a pump that retrieves the newest message first
LastMessage(q) == q[Len(q)]

\* GetMessage inside PumpMessages: the oldest posted message is retrieved first
NextMessage(q) == Head(q)
RestMessages(q) == Tail(q)

\* a call of the callback of table entry e of manager m
Call(m, e) == [mgr |-> m, id |-> e.id, callback |-> e.callback, late |-> FALSE]

\* a lookup that takes the table of the manager whose thread made the window and
\* does not ask _hotkey_managers
wndproc_lookup_own(w, hotkey_id) ==
    IF hotkey_id \in Keys(registered_hotkeys[thr[w].mgr])
    THEN Call(thr[w].mgr, Get(registered_hotkeys[thr[w].mgr], hotkey_id))
    ELSE NoCall

\* WM_HOTKEY for hotkey_id on window w: the call made, NoCall when the window is
\* not in _hotkey_managers or the id is not in the manager's table
wndproc_lookup(w, hotkey_id) ==
    IF w \in DOMAIN hotkey_managers
    THEN IF hotkey_id \in Keys(registered_hotkeys[hotkey_managers[w]])
         THEN Call(hotkey_managers[w],
                   Get(registered_hotkeys[hotkey_managers[w]], hotkey_id))
         ELSE NoCall
    ELSE NoCall

\* _global_wndproc, msg == WM_HOTKEY: the callback starts on the pump's thread, or
\* the message goes to DefWindowProc
ThreadDispatchHotkey(t) ==
    /\ At(t, "pump")
    /\ queue[t] # <<>>
    /\ NextMessage(queue[t]).msg = WM_HOTKEY
    /\ LET msg == NextMessage(queue[t])
           call == wndproc_lookup(t, msg.wparam)
       IN /\ queue' = [queue EXCEPT ![t] = RestMessages(@)]
          /\ IF call # NoCall
             THEN thr' = [thr EXCEPT ![t].pc = "callback",
                                     ![t].cb = [call EXCEPT !.late = msg.late]]
             ELSE UNCHANGED thr
    /\ UNCHANGED <<next_id, next_class_id, registered_hotkeys, running, hwnd,
                   message_thread, hotkey_managers, nthreads, facade, callers, classes, windows,
                   osHotkeys, stopped>>
    /\ returned' = ""

\* the callback returns
ThreadCallbackReturn(t) ==
    /\ At(t, "callback")
    /\ thr' = [thr EXCEPT ![t].pc = "pump", ![t].cb = NoCall]
    /\ UNCHANGED <<next_id, next_class_id, registered_hotkeys, running, hwnd,
                   message_thread, hotkey_managers, nthreads, facade, callers, osVars, stopped>>
    /\ returned' = ""

\* an exception that leaves the window procedure and ends the thread (faulty
\* variant)
WndprocRaises(t) == [thr EXCEPT ![t] = [Unborn EXCEPT !.pc = "done", !.mgr = Self(t)]]

\* the except of _global_wndproc: the error is printed, the window procedure
\* returns 0 and the pump goes on
WndprocExcept(t) == [thr EXCEPT ![t].pc = "pump", ![t].cb = NoCall]

\* the callback raises an Exception
ThreadCallbackRaises(t) ==
    /\ At(t, "callback")
    /\ thr' = WndprocExcept(t)
    /\ UNCHANGED <<next_id, next_class_id, registered_hotkeys, running, hwnd,
                   message_thread, hotkey_managers, nthreads, facade, callers, osVars, stopped>>
    /\ returned' = "callback_error"

\* the hot keys left after the cleanup loop over list(registered_hotkeys.keys())
\* a loop over the ids that ends at the first UnregisterHotKey that fails (faulty
\* variant)
CleanupUnregisterUntilError(w) ==
    LET tbl == registered_hotkeys[hotkey_managers[w]]
        Held(i) == \E r \in osHotkeys : r.hwnd = w /\ r.id = tbl[i].id
    IN {r \in osHotkeys :
            ~(/\ r.hwnd = w
              /\ \E i \in DOMAIN tbl : /\ tbl[i].id = r.id
                                       /\ \A j \in 1..i : Held(j))}

\* the unregister loop of the cleanup: the hot-key table it leaves
CleanupUnregister(w) ==
    {r \in osHotkeys :
         ~(r.hwnd = w /\ r.id \in Keys(registered_hotkeys[hotkey_managers[w]]))}

\* some UnregisterHotKey of the loop raises (the id holds no hot key of the window):
\* the error is printed and the loop goes on
CleanupErrors(w) ==
    \E id \in Keys(registered_hotkeys[hotkey_managers[w]]) :
        ~\E r \in osHotkeys : r.hwnd = w /\ r.id = id

\* _global_wndproc, msg == WM_USER_CLEANUP
ThreadDispatchCleanup(t) ==
    /\ At(t, "pump")
    /\ queue[t] # <<>>
    /\ NextMessage(queue[t]).msg = WM_USER_CLEANUP
    /\ queue' = [queue EXCEPT ![t] = RestMessages(@)]
    /\ IF t \in DOMAIN hotkey_managers
       THEN /\ osHotkeys' = CleanupUnregister(t)
            /\ hotkey_managers' = DelKey(hotkey_managers, t)
            /\ thr' = [thr EXCEPT ![t].quit = TRUE]
            /\ returned' = IF CleanupErrors(t) THEN "unregister_error" ELSE ""
       ELSE /\ UNCHANGED <<osHotkeys, hotkey_managers, thr>>
            /\ returned' = ""
    /\ UNCHANGED <<next_id, next_class_id, registered_hotkeys, running, hwnd,
                   message_thread, nthreads, facade, callers, classes, windows, stopped>>

\* PumpMessages returns on WM_QUIT, which is produced once the queue is empty;
\* _thread_proc ends
ThreadPumpExit(t) ==
    /\ At(t, "pump")
    /\ queue[t] = <<>>
    /\ thr[t].quit
    /\ thr' = [thr EXCEPT ![t] = [Unborn EXCEPT !.pc = "done", !.mgr = Self(t)]]
    /\ ExitThread(t)
    /\ UNCHANGED <<next_id, next_class_id, registered_hotkeys, running, hwnd,
                   message_thread, hotkey_managers, nthreads, facade, callers, classes, stopped>>
    /\ returned' = ""

\* the steps of listener thread t when every OS call does what the program asks
ThreadStep(t) ==
    \/ ThreadClassName(t) \/ ThreadClassLoad(t) \/ ThreadRegisterClass(t)
    \/ ThreadCreateWindow(t) \/ ThreadRegisterEntry(t) \/ ThreadRetry(t)
    \/ ThreadDispatchHotkey(t) \/ ThreadCallbackReturn(t)
    \/ ThreadDispatchCleanup(t) \/ ThreadPumpExit(t)

\* the steps in which an OS call fails for a reason outside the program, or a
\* callback raises
ThreadFault(t) ==
    \/ ThreadRegisterClassFails(t) \/ ThreadCreateWindowFails(t)
    \/ ThreadRegisterEntryFails(t) \/ ThreadCallbackRaises(t)

----------------------------------------------------------------------------
(* The environment *)

\* the user presses a registered combination: the OS posts WM_HOTKEY with the
\* registration's id to the registration's window
KeyPress(r) ==
    /\ Len(queue[r.hwnd]) < MaxQueue
    /\ queue' = [queue EXCEPT ![r.hwnd] =
                     Append(@, HotkeyMsg(r.id, stopped[Self(r.hwnd)]))]
    /\ UNCHANGED <<progVars, facade, callers, classes, windows, osHotkeys,
                   stopped>>
    /\ returned' = ""

\* some process posts WM_HOTKEY with an arbitrary id to a live window
StrayPost(w, id) ==
    /\ Len(queue[w]) < MaxStrayQueue
    /\ queue' = [queue EXCEPT ![w] = Append(@, HotkeyMsg(id, stopped[Self(w)]))]
    /\ UNCHANGED <<progVars, facade, callers, classes, windows, osHotkeys,
                   stopped>>
    /\ returned' = ""

----------------------------------------------------------------------------
(* src/hotkey.py: the HotkeyManager of the top-level module.  Its fields, its      *)
(* register_hotkey and its parser are those of src/winhotkeys/hotkey.py; its      *)
(* start_listening and stop_listening do the OS work themselves, and its thread   *)
(* runs _message_loop.  A window it creates is numbered like the thread it spawns *)

RECURSIVE RegisterAll(_, _, _, _)
\* the loop "for hotkey_id, details in self.registered_hotkeys.items()" with one
\* RegisterHotKey(self.hwnd, hotkey_id, ...) each: a failure is printed and the
\* loop goes on
RegisterAll(hk, tbl, i, w) ==
    IF i > Len(tbl) THEN hk
    ELSE IF Claimed(hk, tbl[i].modifiers, tbl[i].vk_code)
         THEN RegisterAll(hk, tbl, i + 1, w)
    ELSE RegisterAll(hk \cup {[hwnd |-> w, id |-> tbl[i].id,
                                modifiers |-> tbl[i].modifiers,
                                vk_code |-> tbl[i].vk_code]}, tbl, i + 1, w)

\* start_listening of src/hotkey.py on the caller's thread: the class, the window,
\* the hot keys, then the thread that runs _message_loop
TopStartListening(m) ==
    /\ facade = "idle"
    /\ running[m] \/ nthreads < MaxThreads
    /\ IF running[m]
       THEN /\ returned' = "start_listening"
            /\ UNCHANGED <<next_class_id, running, hwnd, message_thread, thr, nthreads,
                           classes, windows, osHotkeys, stopped>>
       ELSE /\ returned' = ""
            /\ running' = [running EXCEPT ![m] = TRUE]
            /\ next_class_id' = next_class_id + 1
            /\ classes' = classes \cup {next_class_id}
            /\ windows' = windows \cup {nthreads + 1}
            /\ hwnd' = [hwnd EXCEPT ![m] = nthreads + 1]
            /\ osHotkeys' = RegisterAll(osHotkeys, registered_hotkeys[m], 1, nthreads + 1)
            /\ nthreads' = nthreads + 1
            /\ thr' = [thr EXCEPT ![nthreads + 1] = [Unborn EXCEPT !.pc = "loop", !.mgr = m]]
            /\ message_thread' = [message_thread EXCEPT ![m] = nthreads + 1]
            /\ stopped' = [stopped EXCEPT ![m] = FALSE]
    /\ UNCHANGED <<next_id, registered_hotkeys, hotkey_managers, facade, callers, queue>>

\* start_listening of src/hotkey.py when RegisterClass or CreateWindow raises:
\* self.running is False again, no thread is spawned
TopStartListeningFails(m) ==
    /\ facade = "idle"
    /\ ~running[m]
    /\ next_class_id <= MaxThreads
    /\ next_class_id' = next_class_id + 1
    /\ \E registered \in BOOLEAN :
          classes' = IF registered THEN classes \cup {next_class_id} ELSE classes
    /\ UNCHANGED <<next_id, registered_hotkeys, running, hwnd, message_thread,
                   hotkey_managers, thr, nthreads, facade, callers, windows, osHotkeys,
                   queue, stopped>>
    /\ returned' = ""

\* stop_listening of src/hotkey.py on the caller's thread: UnregisterHotKey for
\* every id, DestroyWindow, self.hwnd = None, join(timeout=1.0)
TopStopListening(m) ==
    /\ facade = "idle"
    /\ IF ~running[m]
       THEN /\ returned' = "stop_listening"
            /\ UNCHANGED <<running, hwnd, windows, osHotkeys, queue, stopped>>
       ELSE /\ returned' = ""
            /\ running' = [running EXCEPT ![m] = FALSE]
            /\ stopped' = [stopped EXCEPT ![m] = TRUE]
            /\ IF hwnd[m] # NoWindow
               THEN /\ osHotkeys' = {r \in osHotkeys : r.hwnd # hwnd[m]}
                    /\ windows' = windows \ {hwnd[m]}
                    /\ queue' = [queue EXCEPT ![hwnd[m]] = <<>>]
                    /\ hwnd' = [hwnd EXCEPT ![m] = NoWindow]
               ELSE UNCHANGED <<hwnd, windows, osHotkeys, queue>>
    /\ UNCHANGED <<next_id, next_class_id, registered_hotkeys, message_thread,
                   hotkey_managers, thr, nthreads, facade, callers, classes>>

\* _message_loop: "while self.running" is found False and the thread ends; while
\* it is True the thread pumps its own queue, which no window feeds
TopMessageLoopExit(t) ==
    /\ At(t, "loop")
    /\ ~running[Self(t)]
    /\ thr' = [thr EXCEPT ![t] = [Unborn EXCEPT !.pc = "done", !.mgr = Self(t)]]
    /\ UNCHANGED <<next_id, next_class_id, registered_hotkeys, running, hwnd,
                   message_thread, hotkey_managers, nthreads, facade, callers, osVars,
                   stopped>>
    /\ returned' = ""

----------------------------------------------------------------------------
(* Specifications *)

\* one manager, used through HotkeyManager's methods and through HotkeyHandler,
\* with OS calls that may fail
Next ==
    \/ \E req \in Requests : RegisterHotkey("m1", req)
    \/ StartListening("m1")
    \/ StopListening("m1")
    \/ HandlerStartRegister("m1")
    \/ HandlerStartListen("m1")
    \/ \E t \in ThreadIds : ThreadStep(t)
    \/ \E t \in ThreadIds : ThreadFault(t)
    \/ \E r \in osHotkeys : KeyPress(r)

Spec == Init /\ [][Next]_vars

\* the listener threads are scheduled fairly and every callback returns
FairSpec == Spec /\ \A t \in ThreadIds : WF_vars(ThreadStep(t))

\* one manager, and other processes posting WM_HOTKEY to its windows
NextStray ==
    \/ \E req \in Requests : RegisterHotkey("m1", req)
    \/ StartListening("m1")
    \/ StopListening("m1")
    \/ \E t \in ThreadIds : ThreadStep(t)
    \/ \E r \in osHotkeys : KeyPress(r)
    \/ \E w \in windows, id \in 1..MaxIds : StrayPost(w, id)

StraySpec == Init /\ [][NextStray]_vars

\* register_hotkey called from two threads at once, on the same or on two managers
NextRace ==
    \/ \E c \in CallerThreads, m \in Managers, req \in Requests : CallerBegin(c, m, req)
    \/ \E c \in CallerThreads : CallerLoad(c)
    \/ \E c \in CallerThreads : CallerStore(c)
    \/ \E c \in CallerThreads : CallerInsert(c)

RaceSpec == Init /\ [][NextRace]_vars

\* one manager, and the process exiting at any moment
NextExit ==
    \/ \E req \in Requests : RegisterHotkey("m1", req)
    \/ StartListening("m1")
    \/ StopListening("m1")
    \/ \E t \in ThreadIds : ThreadStep(t)
    \/ \E r \in osHotkeys : KeyPress(r)
    \/ BeginExit
    \/ AtExit("m1")

ExitSpec == Init /\ [][NextExit]_vars

\* one manager registering spellings of the same combinations
NextParse ==
    \E req \in SpellingRequests : RegisterHotkey("m1", req)

ParseSpec == Init /\ [][NextParse]_vars

\* one manager and its listener, the combinations having no, one or two modifiers
NextModifiers ==
    \/ \E req \in ModifierCountRequests : RegisterHotkey("m1", req)
    \/ StartListening("m1")
    \/ StopListening("m1")
    \/ \E t \in ThreadIds : ThreadStep(t)
    \/ \E r \in osHotkeys : KeyPress(r)

ModifiersSpec == Init /\ [][NextModifiers]_vars

\* one manager registering combinations that differ in their modifier tokens
NextTokens ==
    \E req \in ModifierListRequests : RegisterHotkey("m1", req)

TokensSpec == Init /\ [][NextTokens]_vars

\* one manager of src/hotkey.py
NextTop ==
    \/ \E req \in Requests : RegisterHotkey("m1", req)
    \/ TopStartListening("m1")
    \/ TopStartListeningFails("m1")
    \/ TopStopListening("m1")
    \/ \E t \in ThreadIds : TopMessageLoopExit(t)
    \/ \E r \in osHotkeys : KeyPress(r)

TopSpec == Init /\ [][NextTop]_vars

\* one manager that is stopped and started again, its table changed only while it
\* is stopped, every OS call doing what the program asks, the listener threads
\* scheduled fairly and every callback returning
NextRestart ==
    \/ \E req \in Requests : ~running["m1"] /\ RegisterHotkey("m1", req)
    \/ StartListening("m1")
    \/ StopListening("m1")
    \/ \E t \in ThreadIds : ThreadStep(t)
    \/ \E r \in osHotkeys : KeyPress(r)

RestartSpec ==
    Init /\ [][NextRestart]_vars /\ \A t \in ThreadIds : WF_vars(ThreadStep(t))

\* two managers in one process
NextTwo ==
    \/ \E m \in Managers, req \in Requests : RegisterHotkey(m, req)
    \/ \E m \in Managers : StartListening(m)
    \/ \E m \in Managers : StopListening(m)
    \/ \E t \in ThreadIds : ThreadStep(t)
    \/ \E r \in osHotkeys : KeyPress(r)

TwoSpec == Init /\ [][NextTwo]_vars

----------------------------------------------------------------------------
(* Properties *)

\* thread t has been spawned and has not ended
Live(t) == thr[t].pc \notin {"unborn", "done"}

\* thread t is inside a callback
InCallback(t) == At(t, "callback")

\* sequence a is a leading part of sequence b
IsPrefix(a, b) == Len(a) <= Len(b) /\ SubSeq(b, 1, Len(a)) = a

\* C1: once stop() has returned on a started handler, no callback runs for a
\* hot-key event that arrived after that return (and before any later start)
C1_NoCallbackAfterStop ==
    \A t \in ThreadIds :
        (InCallback(t) /\ thr[t].cb.late) => ~stopped[thr[t].cb.mgr]

\* stop_listening() ran with running True on the manager whose listener is t
StopRequested(t) == \E m \in Managers : stopped[m] /\ message_thread[m] = t

\* listener t has left its pump, its window is out of the directory and holds no
\* hot key
Cleaned(t) ==
    /\ thr[t].pc = "done"
    /\ t \notin DOMAIN hotkey_managers
    /\ \A r \in osHotkeys : r.hwnd # t

\* C2: whenever stop_listening() is called with running True, the listener
\* eventually unregisters its ids, leaves the directory and leaves its pump
C2_StopLeadsToCleanup == \A t \in ThreadIds : StopRequested(t) ~> Cleaned(t)

\* C3: no two callbacks of the same manager run at the same time
C3_OneCallbackAtATime ==
    \A t \in ThreadIds, u \in ThreadIds :
        (InCallback(t) /\ InCallback(u) /\ thr[t].cb.mgr = thr[u].cb.mgr) => t = u

\* C4: dispatching WM_HOTKEY with id i on window w consumes the message and starts
\* exactly the callback stored under i in the table of the manager the directory
\* maps w to; when w is not in the directory or i not in that table, no callback
\* starts and the pump goes on
C4_DispatchByDirectory ==
    [][\A t \in ThreadIds :
          ThreadDispatchHotkey(t) =>
              LET i == Head(queue[t]).wparam
                  tbl == IF t \in DOMAIN hotkey_managers
                         THEN registered_hotkeys[hotkey_managers[t]]
                         ELSE <<>>
              IN /\ queue'[t] = Tail(queue[t])
                 /\ IF \E k \in DOMAIN tbl : tbl[k].id = i
                    THEN /\ thr'[t].pc = "callback"
                         /\ thr'[t].cb.mgr = hotkey_managers[t]
                         /\ thr'[t].cb.id = i
                         /\ \E k \in DOMAIN tbl :
                               tbl[k].id = i /\ tbl[k].callback = thr'[t].cb.callback
                    ELSE thr'[t] = thr[t] /\ thr'[t].pc = "pump"
                 /\ \A u \in ThreadIds \ {t} : thr'[u] = thr[u]]_vars

\* a callback is running for a registered id while a message with an id that is not
\* in the manager's table waits behind it
C4_Witness ==
    \E t \in ThreadIds :
        /\ InCallback(t)
        /\ t \in DOMAIN hotkey_managers
        /\ thr[t].cb.callback =
               Get(registered_hotkeys[hotkey_managers[t]], thr[t].cb.id).callback
        /\ queue[t] # <<>>
        /\ Head(queue[t]).msg = WM_HOTKEY
        /\ Head(queue[t]).wparam \notin Keys(registered_hotkeys[hotkey_managers[t]])

\* C5: on one listener the callbacks run in the order the events were delivered:
\* a window's queue only grows at its tail and shrinks at its head, a callback
\* starts only for the head message, and none starts while one is running
C5_DeliveryOrder ==
    [][\A t \in ThreadIds :
          /\ queue'[t] # queue[t] =>
                \/ Len(queue'[t]) = Len(queue[t]) + 1 /\ IsPrefix(queue[t], queue'[t])
                \/ queue[t] # <<>> /\ queue'[t] = Tail(queue[t]) /\ At(t, "pump")
                \/ queue'[t] = <<>> /\ thr'[t].pc = "done"
          /\ (thr'[t].pc = "callback" /\ thr'[t] # thr[t]) =>
                /\ At(t, "pump")
                /\ queue[t] # <<>>
                /\ queue'[t] = Tail(queue[t])
                /\ thr'[t].cb.id = Head(queue[t]).wparam]_vars

\* the callback of the first event runs while the event delivered second, for
\* another id, waits in the queue
C5_Witness ==
    \E t \in ThreadIds :
        /\ InCallback(t)
        /\ queue[t] # <<>>
        /\ Head(queue[t]).msg = WM_HOTKEY
        /\ Head(queue[t]).wparam # thr[t].cb.id

\* C6: start_listening() on a running manager spawns no thread, creates no window,
\* makes no OS registration and leaves table, hwnd and running as they are
C6_StartWhileRunningIsNoOp ==
    [][returned' = "start_listening" =>
          UNCHANGED <<next_id, next_class_id, registered_hotkeys, running, hwnd,
                      message_thread, hotkey_managers, thr, nthreads, classes, windows,
                      osHotkeys, queue>>]_vars

\* start_listening() has just been called on a manager whose listener is pumping
\* with a hot key registered
C6_Witness ==
    /\ returned = "start_listening"
    /\ \E t \in ThreadIds :
          /\ At(t, "pump")
          /\ running[Self(t)]
          /\ \E r \in osHotkeys : r.hwnd = t

\* C7: the register_hotkey() call of a HotkeyHandler.start() on a running handler
\* leaves the table and the id allocator as they are
C7_SecondStartKeepsTable ==
    [][\A m \in Managers :
          (HandlerStartRegister(m) /\ running[m]) =>
              UNCHANGED <<registered_hotkeys, next_id>>]_vars

\* C8: stop_listening() on a manager that is not running (never started, or stopped
\* already) posts no message, makes no OS call and changes no manager state
C8_StopWhileStoppedIsNoOp ==
    [][returned' = "stop_listening" => UNCHANGED <<progVars, osVars>>]_vars

\* stop_listening() has just been called again on a stopped manager whose listener
\* has not yet processed the cleanup
C8_Witness ==
    /\ returned = "stop_listening"
    /\ \E t \in ThreadIds :
          /\ Live(t)
          /\ stopped[Self(t)]
          /\ queue[t] # <<>>

\* C9: classes, windows and hot keys change, and messages leave a queue, only in a
\* step of a live listener thread, which creates no window but its own and
\* registers hot keys only on it; start_listening() and stop_listening() only spawn
\* a thread or append the cleanup message to a queue
C9_OsWorkOnListenerThread ==
    [][/\ (\/ classes' # classes
           \/ windows' # windows
           \/ osHotkeys' # osHotkeys
           \/ hwnd' # hwnd
           \/ hotkey_managers' # hotkey_managers
           \/ \E w \in ThreadIds : ~IsPrefix(queue[w], queue'[w])) =>
              \E t \in ThreadIds :
                  /\ Live(t)
                  /\ ThreadStep(t) \/ ThreadFault(t)
                  /\ windows' \ windows \subseteq {t}
                  /\ \A r \in osHotkeys' \ osHotkeys : r.hwnd = t
       /\ (\E m \in Managers :
               StartListening(m) \/ HandlerStartListen(m) \/ StopListening(m)) =>
              /\ UNCHANGED <<classes, windows, osHotkeys, hwnd, hotkey_managers>>
              /\ \A w \in ThreadIds :
                    \/ queue'[w] = queue[w]
                    \/ queue'[w] = Append(queue[w], [msg |-> WM_USER_CLEANUP,
                                                     wparam |-> 0, late |-> FALSE])
              /\ \A t \in ThreadIds :
                    thr'[t] # thr[t] =>
                        thr[t].pc = "unborn" /\ thr'[t].pc = "class_name"]_vars

\* stop_listening() has returned and the hot keys are still registered: the
\* cleanup message waits behind a hot-key message for the listener thread
C9_Witness ==
    \E t \in ThreadIds :
        /\ Live(t)
        /\ stopped[Self(t)]
        /\ Len(queue[t]) = 2
        /\ queue[t][2].msg = WM_USER_CLEANUP
        /\ \E r \in osHotkeys : r.hwnd = t

\* C10: while a window holds the registration of a combination, no step of the
\* listener of another manager removes it or registers the same combination
\* elsewhere
C10_FirstKeepsClaim ==
    [][\A t \in ThreadIds :
          ThreadStep(t) =>
              \A r \in osHotkeys :
                  thr[t].mgr # thr[r.hwnd].mgr =>
                      /\ r \in osHotkeys'
                      /\ \A q \in osHotkeys' :
                            (q.modifiers = r.modifiers /\ q.vk_code = r.vk_code)
                                => q = r]_vars

\* both managers have the same combination in their tables, the second manager's
\* listener is through with its registrations and pumps without that hot key, and
\* a callback of the first manager is running
C10_Witness ==
    \E t \in ThreadIds, u \in ThreadIds :
        /\ InCallback(t)
        /\ At(u, "pump")
        /\ Self(t) # Self(u)
        /\ \E r \in osHotkeys :
              /\ r.hwnd = t
              /\ r.id = thr[t].cb.id
              /\ \E k \in DOMAIN registered_hotkeys[Self(u)] :
                    /\ registered_hotkeys[Self(u)][k].modifiers = r.modifiers
                    /\ registered_hotkeys[Self(u)][k].vk_code = r.vk_code
        /\ \A q \in osHotkeys : q.hwnd # u

\* listener t is in a round of its registration loop, with an entry left to register
InRound(t) == At(t, "iter") /\ ~IterChanged(t) /\ ~IterDone(t)

\* C11: a round of the registration loop, whether its RegisterHotKey succeeds, finds
\* the combination claimed or fails otherwise, goes on to the next entry (through
\* the retry when claimed) and keeps the thread, its window and the hot keys of
\* its other entries; after the last entry the thread enters the pump
C11_FailedEntryKeepsStarting ==
    [][\A t \in ThreadIds :
          /\ (InRound(t) /\ thr'[t] # thr[t]) =>
                /\ thr'[t].pc \in {"iter", "retry"}
                /\ thr'[t].idx = thr[t].idx + 1
                /\ running' = running
                /\ windows' = windows
                /\ \A r \in osHotkeys :
                      (r.hwnd = t /\ r.id # registered_hotkeys[Self(t)][thr[t].idx].id)
                          => r \in osHotkeys'
          /\ (At(t, "retry") /\ thr'[t] # thr[t]) =>
                /\ thr'[t].pc = "iter"
                /\ thr'[t].idx = thr[t].idx
                /\ running' = running
                /\ windows' = windows
          /\ (At(t, "iter") /\ ~IterChanged(t) /\ IterDone(t) /\ thr'[t] # thr[t]) =>
                thr'[t].pc = "pump" /\ running' = running /\ osVars' = osVars]_vars

\* the listener's first entry is not registered, and the callback of its second
\* entry, registered on the listener's window, is running
C11_Witness ==
    \E t \in ThreadIds :
        /\ InCallback(t)
        /\ LET tbl == registered_hotkeys[Self(t)]
           IN /\ Len(tbl) = 2
              /\ thr[t].cb.id = tbl[2].id
              /\ \E r \in osHotkeys : r.hwnd = t /\ r.id = tbl[2].id
              /\ \A r \in osHotkeys : r.id # tbl[1].id

\* C12: ids are issued per manager: the first id every manager issues is 1 and the
\* ids in a manager's table increase one by one
C12_IdsPerManager ==
    \A m \in Managers :
        \A k \in DOMAIN registered_hotkeys[m] : registered_hotkeys[m][k].id = k

\* the ids found in the tables of all managers, one element per entry
TableIds ==
    UNION {{<<m, k, registered_hotkeys[m][k].id>> : k \in DOMAIN registered_hotkeys[m]} :
               m \in Managers}

\* C13: no register_hotkey call obtains an id that another call, finished or under
\* way, has obtained: the ids held by calls under way differ from each other and
\* from every id in a table, and the ids in the tables differ from each other
C13_IdsNeverShared ==
    /\ \A c \in CallerThreads, d \in CallerThreads :
          (c # d /\ ~CallerAt(c, "idle") /\ ~CallerAt(d, "idle"))
              => callers[c].hotkey_id # callers[d].hotkey_id
    /\ \A c \in CallerThreads, x \in TableIds :
          ~CallerAt(c, "idle") => callers[c].hotkey_id # x[3]
    /\ \A x \in TableIds, y \in TableIds : x[3] = y[3] => x = y

\* C14: while a manager's listener is starting or running (running is True) no step
\* changes the manager's table
C14_TableFrozenWhileRunning ==
    [][\A m \in Managers :
          running[m] => registered_hotkeys'[m] = registered_hotkeys[m]]_vars

\* C15: every entry of the directory maps a live window to the manager whose live
\* listener thread created it
C15_DirectoryEntriesAlive ==
    \A w \in DOMAIN hotkey_managers :
        /\ Live(w)
        /\ w \in windows
        /\ Self(w) = hotkey_managers[w]

ActiveListener(m, t) ==
    /\ Live(t)
    /\ Self(t) = m
    /\ t \in windows
    /\ t \in DOMAIN hotkey_managers
    /\ hotkey_managers[t] = m

\* C17: the exit hook of a manager whose listener is still active posts the cleanup
\* message to that listener's window
C17_ExitHookPostsCleanup ==
    [][\A m \in Managers :
          AtExit(m) =>
              \A t \in ThreadIds :
                  ActiveListener(m, t) =>
                      \E i \in 1..Len(queue'[t]) : queue'[t][i].msg = WM_USER_CLEANUP]_vars

\* C18: stop_listening never waits for the listener thread: whatever the listener
\* thread is doing, a caller's stop_listening() can run to its return, and the call
\* moves no listener thread
C18_StopNeverWaits ==
    /\ [](\A m \in Managers : facade = "idle" => ENABLED StopListening(m))
    /\ [][\A m \in Managers : StopListening(m) => thr' = thr]_vars

\* stop_listening has returned while the listener thread is inside a callback, the
\* cleanup message waiting in its queue
C18_Witness ==
    \E t \in ThreadIds :
        /\ InCallback(t)
        /\ ~thr[t].cb.late
        /\ stopped[Self(t)]
        /\ ~running[Self(t)]
        /\ \E i \in 1..Len(queue[t]) : queue[t][i].msg = WM_USER_CLEANUP

\* C19: a call of register_hotkey with the empty combination, an unknown modifier
\* or an unresolvable main key returns early: no entry, no id, nothing at the OS
C19_RejectedCallChangesNothing ==
    [][\A req \in Requests :
          (req.combination \in RejectedInputs /\ RegisterHotkey("m1", req)) =>
              /\ returned' = "register_hotkey"
              /\ UNCHANGED <<progVars, osVars>>]_vars

\* a rejected call has returned while a listener holds registrations at the OS
C19_Witness ==
    /\ returned = "register_hotkey"
    /\ registered_hotkeys["m1"] # <<>>
    /\ osHotkeys # {}

\* two spellings of one combination
SameCombination(c1, c2) == \E b \in Bases : c1 \in Variants[b] /\ c2 \in Variants[b]

\* C20: no spelling is rejected, and entries registered under two spellings of one
\* combination (the same spelling twice included) hold the same modifiers and code
C20_SpellingsParseAlike ==
    [][/\ returned' # "register_hotkey"
       /\ \A k1, k2 \in DOMAIN registered_hotkeys'["m1"] :
             LET e1 == registered_hotkeys'["m1"][k1]
                 e2 == registered_hotkeys'["m1"][k2]
             IN SameCombination(e1.combination, e2.combination) =>
                    /\ e1.modifiers = e2.modifiers
                    /\ e1.vk_code = e2.vk_code]_vars

\* the table holds a combination in lower case without spaces and another
\* spelling of it, with the same modifiers and code
C20_Witness ==
    \E b \in Bases :
        /\ Len(registered_hotkeys["m1"]) = 2
        /\ registered_hotkeys["m1"][1].combination = Join(b)
        /\ registered_hotkeys["m1"][2].combination \in Variants[b] \ CaseVariants(Join(b))
        /\ registered_hotkeys["m1"][1].vk_code = registered_hotkeys["m1"][2].vk_code
        /\ registered_hotkeys["m1"][1].modifiers = registered_hotkeys["m1"][2].modifiers

\* bit b is set in a
HasFlag(a, b) == (a \div b) % 2 = 1

\* C21: every entry of a table and every registration made at the OS carries the
\* no-repeat flag, whatever the number of modifier tokens
C21_NoRepeatAlwaysSet ==
    /\ \A m \in Managers : \A k \in DOMAIN registered_hotkeys[m] :
           HasFlag(registered_hotkeys[m][k].modifiers, MOD_NOREPEAT)
    /\ \A r \in osHotkeys : HasFlag(r.modifiers, MOD_NOREPEAT)

\* the OS holds a registration without modifier keys and one with modifier keys
C21_Witness ==
    /\ \E r \in osHotkeys : r.modifiers = MOD_NOREPEAT
    /\ \E r \in osHotkeys : r.modifiers > MOD_NOREPEAT

\* C22: no list of modifier tokens is rejected, and entries whose lists name the
\* same set of modifier keys (tokens repeated, reordered or under their other name)
\* hold the same modifiers and key code
C22_ModifiersDependOnTokenSet ==
    [][/\ returned' # "register_hotkey"
       /\ \A k1, k2 \in DOMAIN registered_hotkeys'["m1"] :
             LET e1 == registered_hotkeys'["m1"][k1]
                 e2 == registered_hotkeys'["m1"][k2]
             IN ModifierKeys[e1.combination] = ModifierKeys[e2.combination] =>
                    /\ e1.modifiers = e2.modifiers
                    /\ e1.vk_code = e2.vk_code]_vars

\* the table holds ctrl+alt+f1 and a combination that repeats a token, uses the
\* other name of ctrl and gives the tokens in the other order
C22_Witness ==
    /\ Len(registered_hotkeys["m1"]) = 2
    /\ registered_hotkeys["m1"][1].combination = "ctrl+alt+f1"
    /\ registered_hotkeys["m1"][2].combination = "alt+control+alt+f1"
    /\ registered_hotkeys["m1"][1].modifiers = registered_hotkeys["m1"][2].modifiers
    /\ registered_hotkeys["m1"][1].vk_code = registered_hotkeys["m1"][2].vk_code

\* C23: in the loop of a listener thread every entry gets one first RegisterHotKey;
\* a second one is made only after the first found the combination claimed (1409),
\* it follows an unregister of the entry's id on the thread's own window, and the
\* loop then goes on to the next entry whatever the second one gave
C23_AtMostOneRetry ==
    [][\A t \in ThreadIds :
          /\ (At(t, "iter") /\ thr'[t].pc \in {"iter", "retry"} /\ thr'[t] # thr[t]) =>
                thr'[t].idx = thr[t].idx + 1
          /\ (~At(t, "retry") /\ thr'[t].pc = "retry") =>
                /\ At(t, "iter")
                /\ thr'[t].cur = registered_hotkeys[Self(t)][thr[t].idx]
                /\ Claimed(osHotkeys', thr'[t].cur.modifiers, thr'[t].cur.vk_code)
          /\ (At(t, "retry") /\ thr'[t] # thr[t]) =>
                /\ thr'[t].pc = "iter"
                /\ thr'[t].idx = thr[t].idx
                /\ hwnd[Self(t)] = t
                /\ \A r \in (osHotkeys \ osHotkeys') \cup (osHotkeys' \ osHotkeys) :
                      r.hwnd = t /\ r.id = thr[t].cur.id]_vars

\* C24: the cleanup of a listener goes through also when an UnregisterHotKey fails:
\* no id of the table keeps a hot key on the window, the window leaves the
\* directory, the pump is told to end, and the caller's side is not touched
C24_CleanupSurvivesUnregisterError ==
    [][\A t \in ThreadIds :
          (ThreadDispatchCleanup(t) /\ t \in DOMAIN hotkey_managers) =>
              /\ \A r \in osHotkeys' :
                     ~(r.hwnd = t /\ r.id \in Keys(registered_hotkeys[hotkey_managers[t]]))
              /\ t \notin DOMAIN hotkey_managers'
              /\ thr'[t].quit
              /\ UNCHANGED <<running, facade, callers, stopped>>]_vars

\* a cleanup in which an UnregisterHotKey failed has gone through, the table
\* holding two ids
C24_Witness ==
    /\ returned = "unregister_error"
    /\ \E t \in ThreadIds :
           /\ thr[t].quit
           /\ Len(registered_hotkeys[Self(t)]) = 2
           /\ t \notin DOMAIN hotkey_managers
           /\ \A r \in osHotkeys : r.hwnd # t

\* C25: a listener thread that ends at RegisterClass or CreateWindowEx leaves no
\* directory entry, no window and no hot key, resets the running flag and does not
\* touch its caller; a start_listening() after it spawns a new listener thread
C25_FailedStartIsCleanAndRetryable ==
    [][/\ \A t \in ThreadIds :
             (thr[t].pc \in {"register_class", "create_window"} /\ thr'[t].pc = "done") =>
                 /\ ~running'[Self(t)]
                 /\ t \notin DOMAIN hotkey_managers'
                 /\ t \notin windows'
                 /\ \A r \in osHotkeys' : r.hwnd # t
                 /\ UNCHANGED <<facade, callers, registered_hotkeys>>
       /\ \A m \in Managers :
             (/\ StartListening(m)
              /\ ~running[m]
              /\ \E t \in ThreadIds : At(t, "done") /\ Self(t) = m) =>
                 /\ nthreads' = nthreads + 1
                 /\ running'[m]
                 /\ thr'[nthreads'].pc = "class_name"
                 /\ thr'[nthreads'].mgr = m]_vars

\* the first listener thread ended at RegisterClass, and the listener started after
\* it has reached the pump
C25_Witness ==
    /\ At(1, "done")
    /\ classes = {2}
    /\ At(2, "pump")
    /\ Self(2) = Self(1)
    /\ running[Self(2)]
    /\ 2 \in DOMAIN hotkey_managers
    /\ \E r \in osHotkeys : r.hwnd = 2

\* C26: in src/hotkey.py too, start_listening() and stop_listening() leave the
\* window classes, the windows and the hot keys alone: that work is the pumping
\* thread's
C26_TopOsWorkOnPumpThread ==
    [][(\E m \in Managers :
            TopStartListening(m) \/ TopStartListeningFails(m) \/ TopStopListening(m)) =>
           UNCHANGED <<classes, windows, osHotkeys>>]_vars

\* thread t is the listener of a restart made before the teardown of the previous
\* listener: that listener is pumping, holds the manager's window and has the
\* cleanup message in its queue when start_listening() spawns t
Restarted(t) ==
    /\ At(t, "class_name")
    /\ \E u \in ThreadIds :
          /\ u < t
          /\ Self(u) = Self(t)
          /\ At(u, "pump")
          /\ hwnd[Self(t)] = u
          /\ \E i \in 1..Len(queue[u]) : queue[u][i].msg = WM_USER_CLEANUP

\* every entry of the manager's table holds a hot key on the window of thread t
Served(t) ==
    \A k \in DOMAIN registered_hotkeys[Self(t)] :
        \E r \in osHotkeys : r.hwnd = t /\ r.id = registered_hotkeys[Self(t)][k].id

\* the table of thread t's manager names no combination twice
DistinctCombinations(t) ==
    \A k1, k2 \in DOMAIN registered_hotkeys[Self(t)] :
        k1 # k2 =>
            \/ registered_hotkeys[Self(t)][k1].modifiers # registered_hotkeys[Self(t)][k2].modifiers
            \/ registered_hotkeys[Self(t)][k1].vk_code # registered_hotkeys[Self(t)][k2].vk_code

\* C27: the listener of a restart comes to hold a hot key on its window for every
\* entry of the table, unless the manager is stopped again first and the listener
\* ends (or the table names a combination twice)
C27_RestartRegistersEveryEntry ==
    \A t \in ThreadIds :
        (Restarted(t) /\ DistinctCombinations(t))
            ~> (\/ ~Live(t)
                \/ Served(t)
                \/ stopped[Self(t)]
                \/ ~DistinctCombinations(t))

\* C28: the listener threads of two managers take different window-class ids, so
\* the RegisterClass of neither fails and each goes on to create its window
C28_DistinctClassIds ==
    [][\A t \in ThreadIds :
          /\ \A u \in ThreadIds :
                (t # u /\ thr'[t].class_name # 0 /\ thr'[u].class_name # 0) =>
                    thr'[t].class_name # thr'[u].class_name
          /\ (At(t, "register_class") /\ thr'[t] # thr[t]) =>
                thr'[t].pc = "create_window"]_vars

\* C29: a listener thread inside its registration loop never ends there: each of
\* its steps leads to the next entry, the retry or the pump, with the running flag
\* and the directory entry as they were
C29_LoopNeverAborts ==
    [][\A t \in ThreadIds :
          (At(t, "iter") /\ thr'[t] # thr[t]) =>
              /\ thr'[t].pc \in {"iter", "retry", "pump"}
              /\ running'[Self(t)] = running[Self(t)]
              /\ t \in windows'
              /\ t \in DOMAIN hotkey_managers'
              /\ hotkey_managers'[t] = Self(t)]_vars

\* C30: a callback that raises leaves the listener thread at its pump with its
\* window, hot keys, directory entry and pending messages as they were, and the
\* next WM_HOTKEY of the queue can be dispatched
C30_CallbackErrorContained ==
    /\ [][\A t \in ThreadIds :
             ThreadCallbackRaises(t) =>
                 /\ thr'[t].pc = "pump"
                 /\ UNCHANGED <<running, hwnd, hotkey_managers, registered_hotkeys, osVars>>]_vars
    /\ [](returned = "callback_error" =>
             \A t \in ThreadIds :
                 (At(t, "pump") /\ queue[t] # <<>> /\ NextMessage(queue[t]).msg = WM_HOTKEY) =>
                     ENABLED ThreadDispatchHotkey(t))

\* a callback has raised: its thread is at the pump, registered and in the
\* directory, with another WM_HOTKEY waiting
C30_Witness ==
    /\ returned = "callback_error"
    /\ \E t \in ThreadIds :
           /\ At(t, "pump")
           /\ running[Self(t)]
           /\ t \in DOMAIN hotkey_managers
           /\ \E r \in osHotkeys : r.hwnd = t
           /\ queue[t] # <<>>
           /\ NextMessage(queue[t]).msg = WM_HOTKEY

\* C31: listeners of different managers are isolated: a callback started on a
\* window is an entry of the table of the manager whose thread made the window;
\* stop_listening of a manager posts only to windows of that manager; and the
\* cleanup on a window leaves the hot keys and the directory entries of the other
\* managers' windows as they were
C31_ListenersIsolated ==
    /\ [](\A t \in ThreadIds :
             InCallback(t) =>
                 /\ thr[t].cb.mgr = Self(t)
                 /\ \E k \in DOMAIN registered_hotkeys[Self(t)] :
                        /\ registered_hotkeys[Self(t)][k].id = thr[t].cb.id
                        /\ registered_hotkeys[Self(t)][k].callback = thr[t].cb.callback)
    /\ [][\A m \in Managers :
             StopListening(m) =>
                 \A w \in ThreadIds : queue'[w] # queue[w] => Self(w) = m]_vars
    /\ [][\A t \in ThreadIds :
             ThreadDispatchCleanup(t) =>
                 /\ \A r \in osHotkeys : Self(r.hwnd) # Self(t) => r \in osHotkeys'
                 /\ \A w \in DOMAIN hotkey_managers :
                        hotkey_managers[w] # Self(t) =>
                            /\ w \in DOMAIN hotkey_managers'
                            /\ hotkey_managers'[w] = hotkey_managers[w]
                 /\ \A w \in ThreadIds \ {t} : queue'[w] = queue[w] /\ thr'[w] = thr[w]]_vars

\* the cleanup of one manager has run on its window while a callback of another
\* manager runs on a window that still has its hot key and its directory entry
C31_Witness ==
    \E t, u \in ThreadIds :
        /\ Live(t) /\ Live(u)
        /\ Self(t) # Self(u)
        /\ thr[t].quit
        /\ t \notin DOMAIN hotkey_managers
        /\ ~\E r \in osHotkeys : r.hwnd = t
        /\ InCallback(u)
        /\ u \in DOMAIN hotkey_managers
        /\ \E r \in osHotkeys : r.hwnd = u /\ r.id = thr[u].cb.id

====
